---------------------------- MODULE Spec2Model ----------------------------
(***************************************************************************)
(* Model of reco_utils/dataset/rbm_splitters.py: class splitter.           *)
(*                                                                         *)
(*   gen_index            raw user/item identifiers -> contiguous indices  *)
(*   gen_affinity_matrix  indexed rows -> dense (Nusers, Nitems) matrix    *)
(*   map_back_sparse      dense matrix -> table in original identifiers    *)
(*   stratified_split     per-user random train/test split of the matrix   *)
(*                                                                         *)
(* A table (pandas DataFrame) is a sequence of rows [user, item, rating].  *)
(* A matrix (numpy 2-d array) is a record [m, n, a] with shape (m, n) and  *)
(* a[<<i, j>>] the cell at zero-based row i, column j.                     *)
(***************************************************************************)
EXTENDS Integers, Sequences, FiniteSets, TLC

(***************************************************************************)
(* Inputs                                                                  *)
(***************************************************************************)
Users   == {11, 12}          \* raw user identifiers
Items   == {21, 22, 23}      \* raw item identifiers
Ratings == {1, 2}            \* rating values
Seeds   == {42, 1234}        \* seed arguments of the repeated-call runs
Ratios  == {25, 50, 90}      \* ratio arguments, in hundredths (0.25, 0.5, 0.9)
MaxRows == 3                 \* longest input table
RepeatRows == 2              \* longest input table of the runs of SpecRepeat
                             \* and SpecClient

Rows == [user : Users, item : Items, rating : Ratings]

TablesUpTo(n) == UNION {[1..k -> Rows] : k \in 0..n}

Tables == TablesUpTo(MaxRows)

Range(s) == {s[k] : k \in 1..Len(s)}

Column(t, c) == [k \in 1..Len(t) |-> t[k][c]]

\* What pandas puts in a cell whose key the mapping dictionary lacks.
NaN == -1

(***************************************************************************)
(* gen_index                                                               *)
(***************************************************************************)
Perms(n) == {p \in [1..n -> 1..n] : \A a, b \in 1..n : a # b => p[a] # p[b]}

\* df.sort_values(by=[col_user]) with the default, unstable, sort kind: the
\* result is some ordering of the rows that is ascending in the user column.
\* Which one is fixed by the sort routine of the installation: the same table
\* sorts the same way every time.
SortValues(t) ==
  {[k \in 1..Len(t) |-> t[p[k]]] :
     p \in {q \in Perms(Len(t)) :
              \A k \in 1..(Len(t) - 1) : t[q[k]].user <= t[q[k + 1]].user}}

\* Unique without the removal of repeated values.
UniqueKeepAll(s) == s

\* Series.unique(): the distinct values in order of first appearance.
Unique(s) ==
  LET F[k \in 0..Len(s)] ==
        IF k = 0 THEN << >>
        ELSE IF \E j \in 1..(k - 1) : s[j] = s[k] THEN F[k - 1]
             ELSE Append(F[k - 1], s[k])
  IN F[Len(s)]

\* {x: i for i, x in enumerate(unique)}: a later duplicate would overwrite.
MapForward(uniq) ==
  [x \in Range(uniq) |->
     (CHOOSE k \in 1..Len(uniq) :
        uniq[k] = x /\ \A j \in (k + 1)..Len(uniq) : uniq[j] # x) - 1]

\* MapBackward enumerating the identifiers from the last to the first.
MapBackwardReversed(uniq) ==
  [k \in 0..(Len(uniq) - 1) |-> uniq[Len(uniq) - k]]

\* {i: x for i, x in enumerate(unique)}
MapBackward(uniq) == [k \in 0..(Len(uniq) - 1) |-> uniq[k + 1]]

(***************************************************************************)
(* gen_affinity_matrix                                                     *)
(***************************************************************************)
\* Series.map(dict): NaN where the dictionary has no such key.
SeriesMap(s, dict) ==
  [k \in 1..Len(s) |-> IF s[k] \in DOMAIN dict THEN dict[s[k]] ELSE NaN]

Cells(m, n) == (0..(m - 1)) \X (0..(n - 1))

\* CooToArray with the last entry of a cell overwriting the earlier ones.
CooToArrayLastWins(data, row, col, m, n) ==
  LET F[k \in 0..Len(data)] ==
        IF k = 0 THEN [c \in Cells(m, n) |-> 0]
        ELSE [F[k - 1] EXCEPT ![<<row[k], col[k]>>] = data[k]]
  IN [m |-> m, n |-> n, a |-> F[Len(data)]]

\* coo_matrix((data, (row, col)), shape=(m, n)).toarray(): every entry is
\* added into its cell, so entries with the same coordinates are summed.
CooToArray(data, row, col, m, n) ==
  LET F[k \in 0..Len(data)] ==
        IF k = 0 THEN [c \in Cells(m, n) |-> 0]
        ELSE [F[k - 1] EXCEPT ![<<row[k], col[k]>>] = @ + data[k]]
  IN [m |-> m, n |-> n, a |-> F[Len(data)]]

\* (self.AM == 0).sum() and shape[0] * shape[1]
ZeroCount(X) == Cardinality({c \in Cells(X.m, X.n) : X.a[c] = 0})

Total(X) == X.m * X.n

\* 'Matrix generated, sparsness: %d' % (zero / total * 100): zero / total is
\* NaN when total is 0, and %d of NaN raises ValueError.
SparsnessRaises(X) == Total(X) = 0

(***************************************************************************)
(* map_back_sparse                                                         *)
(***************************************************************************)
\* NonZeroCols that stops one column short of the last.
NonZeroColsShort(X, r) ==
  LET F[j \in 0..X.n] ==
        IF j = 0 THEN << >>
        ELSE IF j < X.n /\ X.a[<<r, j - 1>>] # 0 THEN Append(F[j - 1], j - 1)
             ELSE F[j - 1]
  IN F[X.n]

\* np.where(X[i, :] != 0): the non-zero columns of row i, ascending.
NonZeroCols(X, r) ==
  LET F[j \in 0..X.n] ==
        IF j = 0 THEN << >>
        ELSE IF X.a[<<r, j - 1>>] # 0 THEN Append(F[j - 1], j - 1)
             ELSE F[j - 1]
  IN F[X.n]

\* One output row per non-zero cell, grouped by row index and then by column
\* index, with both indices replaced through the backward maps.
MapBackSparse(X, mbu, mbi) ==
  LET RowOf(r) ==
        LET items == NonZeroCols(X, r)
            ratings == [k \in 1..Len(items) |-> X.a[<<r, items[k]>>]]
            userids == [k \in 1..Len(items) |-> r]
            mu == SeriesMap(userids, mbu)
            mi == SeriesMap(items, mbi)
        IN [k \in 1..Len(items) |->
              [user |-> mu[k], item |-> mi[k], rating |-> ratings[k]]]
      F[r \in 0..X.m] == IF r = 0 THEN << >> ELSE F[r - 1] \o RowOf(r - 1)
  IN F[X.m]

(***************************************************************************)
(* stratified_split: the pure pieces                                       *)
(***************************************************************************)
\* The ratios r = p/100 whose int((1 - r) * 100) is one less than 100 - p in
\* IEEE double arithmetic (0.9 gives 9.999999999999998, truncated to 9).
TruncatedLow == {34, 55, 56, 67, 68, 78, 79, 80, 81, 89, 90, 91, 92, 93}

\* test_cut = int((1 - ratio) * 100), ratio given in hundredths
TestCut(p) == IF p \in TruncatedLow THEN 99 - p ELSE 100 - p

\* rated = np.sum(Xtr != 0, axis=1)
Rated(X) == [r \in 0..(X.m - 1) |-> Len(NonZeroCols(X, r))]

\* TestCount rounding to the nearest integer instead of down.
TestCountRounded(rt, cut) == [r \in DOMAIN rt |-> (rt[r] * cut + 50) \div 100]

\* tst = (rated * test_cut) // 100
TestCount(rt, cut) == [r \in DOMAIN rt |-> (rt[r] * cut) \div 100]

\* Remove dropping the head of the list, as idx.pop(0) would.
RemoveHead(s, x) == Tail(s)

\* list.remove(x): drops the first occurrence of x.
Remove(s, x) ==
  LET k == CHOOSE j \in 1..Len(s) : s[j] = x /\ \A h \in 1..(j - 1) : s[h] # x
  IN [j \in 1..(Len(s) - 1) |-> IF j < k THEN s[j] ELSE s[j + 1]]

\* X[r, cols] = 0
ZeroCols(X, r, cols) ==
  [X EXCEPT !.a = [c \in DOMAIN X.a |->
                     IF c[1] = r /\ c[2] \in Range(cols) THEN 0 ELSE X.a[c]]]

\* np.sum(X[r, :] != 0)
NonZeroCount(X, r) == Len(NonZeroCols(X, r))

EmptyMatrix == [m |-> 0, n |-> 0, a |-> << >>]

(***************************************************************************)
(* State                                                                   *)
(***************************************************************************)
VARIABLES
  df,              \* self.df: the table given to the constructor
  sorted_df,       \* what df.sort_values(by=[col_user]) returns for self.df
  attrs,           \* the attributes set on self so far
  df_,             \* self.df_
  Nusers, Nitems,  \* self.Nusers, self.Nitems
  map_users, map_items,            \* self.map_users, self.map_items
  map_back_users, map_back_items,  \* self.map_back_users, self.map_back_items
  AM,              \* self.AM
  ratio, np_seed,  \* the ratio argument; the seed of numpy's global generator
  test_cut, Xtr, Xtst, rated, tst, \* locals of stratified_split
  u, i, idx, idx_tst, sub_el,      \* loop variables of stratified_split
  bound,           \* which of idx, idx_tst, sub_el are bound
  pc,              \* position of the running call
  err,             \* the exception the call ended with, or "none"
  ret,             \* the tables stratified_split returned
  arg, out_df,     \* argument and result of a direct map_back_sparse call
  calls_left,      \* stratified_split calls the client still makes
  seeds,           \* the seed arguments the client passes
  prev             \* ratio, seed and matrices of the previous returned call

selfVars == <<attrs, df_, Nusers, Nitems, map_users, map_items,
              map_back_users, map_back_items, AM>>

loopVars == <<Xtr, Xtst, rated, tst, u, i, idx, idx_tst, sub_el, bound>>

callVars == <<ratio, np_seed, test_cut>>

apiVars == <<arg, out_df>>

clientVars == <<calls_left, seeds>>

vars == <<df, sorted_df, selfVars, callVars, loopVars, pc, err, ret, apiVars,
          clientVars, prev>>

NoTables == [train |-> << >>, test |-> << >>]

NoPrev == [ratio |-> 0, seed |-> 0, Xtr |-> EmptyMatrix, Xtst |-> EmptyMatrix,
           valid |-> FALSE]

\* splitter.__init__ followed by nothing else: no index, no matrix.
Constructed(t, calls, sds) ==
  /\ df = t
  /\ sorted_df \in SortValues(t)
  /\ attrs = {}
  /\ df_ = << >>
  /\ Nusers = 0 /\ Nitems = 0
  /\ map_users = << >> /\ map_items = << >>
  /\ map_back_users = << >> /\ map_back_items = << >>
  /\ AM = EmptyMatrix
  /\ ratio = 0 /\ np_seed = 0 /\ test_cut = 0
  /\ Xtr = EmptyMatrix /\ Xtst = EmptyMatrix
  /\ rated = << >> /\ tst = << >>
  /\ u = 0 /\ i = 0 /\ idx = << >> /\ idx_tst = << >> /\ sub_el = 0
  /\ bound = {}
  /\ pc = "idle" /\ err = "none"
  /\ ret = NoTables
  /\ arg = EmptyMatrix /\ out_df = << >>
  /\ calls_left = calls
  /\ seeds = sds
  /\ prev = NoPrev

\* One call of stratified_split with the default seed.
Init == \E t \in Tables : Constructed(t, 1, {1234})

Raise(e) == pc' = "raised" /\ err' = e

(***************************************************************************)
(* gen_index and gen_affinity_matrix, as the bodies of the methods         *)
(***************************************************************************)
\* Lines 94-109 for one outcome `sorted` of the sort.
GenIndexFrom(sorted) ==
  LET unique_users == Unique(Column(sorted, "user"))
      unique_items == Unique(Column(sorted, "item"))
  IN [df_ |-> sorted,
      Nusers |-> Len(unique_users),
      Nitems |-> Len(unique_items),
      map_users |-> MapForward(unique_users),
      map_items |-> MapForward(unique_items),
      map_back_users |-> MapBackward(unique_users),
      map_back_items |-> MapBackward(unique_items)]

\* The two index columns added to self.df_.
Hashed(t, mu, mi) ==
  LET hi == SeriesMap(Column(t, "item"), mi)
      hu == SeriesMap(Column(t, "user"), mu)
  IN [k \in 1..Len(t) |->
        [user |-> t[k].user, item |-> t[k].item, rating |-> t[k].rating,
         hashedItems |-> hi[k], hashedUsers |-> hu[k]]]

\* self.AM as built from the indexed rows.
AffinityMatrix(t, m, n) ==
  CooToArray(Column(t, "rating"), Column(t, "hashedUsers"),
             Column(t, "hashedItems"), m, n)

\* gen_index alone: self.AM, if any, stays as it was.
GenIndexOnly ==
  \E sorted \in {sorted_df} :
    \E g \in {GenIndexFrom(sorted)} :
       /\ df_' = g.df_
       /\ Nusers' = g.Nusers
       /\ Nitems' = g.Nitems
       /\ map_users' = g.map_users
       /\ map_items' = g.map_items
       /\ map_back_users' = g.map_back_users
       /\ map_back_items' = g.map_back_items
       /\ attrs' = attrs \cup {"df_", "maps"}
       /\ AM' = AM

\* gen_affinity_matrix alone, lines 147-161: the index columns, the matrix.
GenAffinityMatrixBody ==
  LET h == Hashed(df_, map_users, map_items)
  IN /\ df_' = h
     /\ AM' = AffinityMatrix(h, Nusers, Nitems)
     /\ attrs' = attrs \cup {"AM"}
     /\ UNCHANGED <<Nusers, Nitems, map_users, map_items,
                    map_back_users, map_back_items>>

\* gen_index() followed by gen_affinity_matrix(), as stratified_split calls
\* them (lines 222-226).
GenIndexAndMatrix ==
  \E sorted \in {sorted_df} :
    \E g \in {GenIndexFrom(sorted)} :
    \E h \in {Hashed(sorted, g.map_users, g.map_items)} :
       /\ df_' = h
       /\ Nusers' = g.Nusers
       /\ Nitems' = g.Nitems
       /\ map_users' = g.map_users
       /\ map_items' = g.map_items
       /\ map_back_users' = g.map_back_users
       /\ map_back_items' = g.map_back_items
       /\ AM' = AffinityMatrix(h, g.Nusers, g.Nitems)
       /\ attrs' = attrs \cup {"df_", "maps", "AM"}

(***************************************************************************)
(* stratified_split(ratio, seed)                                           *)
(***************************************************************************)
\* Lines 244-247, tst[u] times: random.choice(idx), idx.remove, append.
\* picks[j] is the position in idx that the j-th random.choice returns.
Sample(idx0, picks) ==
  LET F[j \in 0..Len(picks)] ==
        IF j = 0 THEN [idx |-> idx0, idx_tst |-> << >>, sub_el |-> 0]
        ELSE LET el == F[j - 1].idx[picks[j]]
             IN [idx |-> Remove(F[j - 1].idx, el),
                 idx_tst |-> Append(F[j - 1].idx_tst, el),
                 sub_el |-> el]
  IN F[Len(picks)]

\* The positions k successive random.choice calls can return on a list that
\* has n elements at first and one fewer after each call.
Picks(n, k) == {p \in [1..k -> 1..n] : \A j \in 1..k : p[j] <= n - j + 1}

\* Lines 254-256, after the loop: del idx, sub_el, idx_tst raises on a name
\* that was never bound; otherwise the matrices are mapped back and returned.
\* b is the set of bound names, T and S the train and test matrices.
SplitEnd(b, T, S) ==
  IF {"idx", "sub_el", "idx_tst"} \subseteq b
  THEN /\ bound' = {}
       /\ ret' = [train |-> MapBackSparse(T, map_back_users, map_back_items),
                  test |-> MapBackSparse(S, map_back_users, map_back_items)]
       /\ pc' = "returned"
       /\ err' = err
  ELSE /\ Raise("UnboundLocalError")
       /\ bound' = b
       /\ ret' = ret

\* Lines 216-236: np.random.seed(seed), test_cut, gen_index(),
\* gen_affinity_matrix(), the two copies, rated and tst.
SplitBegin(r, s) ==
  /\ pc \in {"idle", "returned"}
  /\ calls_left > 0
  /\ calls_left' = calls_left - 1
  /\ seeds' = seeds
  /\ prev' = IF pc = "returned"
             THEN [ratio |-> ratio, seed |-> np_seed, Xtr |-> Xtr,
                   Xtst |-> Xtst, valid |-> TRUE]
             ELSE prev
  /\ ratio' = r
  /\ np_seed' = s
  /\ test_cut' = TestCut(r)
  /\ GenIndexAndMatrix
  /\ bound' = {}
  /\ ret' = NoTables
  /\ idx' = << >> /\ idx_tst' = << >> /\ sub_el' = 0 /\ i' = 0
  /\ IF SparsnessRaises(AM')
     THEN /\ Raise("ValueError")
          /\ UNCHANGED <<Xtr, Xtst, rated, tst, u>>
     ELSE /\ Xtr' = AM'
          /\ Xtst' = AM'
          /\ rated' = Rated(AM')
          /\ tst' = TestCount(Rated(AM'), TestCut(r))
          /\ u' = 0
          /\ pc' = "for_u"
          /\ err' = err
  /\ UNCHANGED <<df, sorted_df, apiVars>>

\* Lines 238-252, one pass of the loop over the users: the columns the user
\* rated, the draws, the two assignments and the assertion; after the last
\* pass, lines 254-256. random.choice reads Python's process-wide generator,
\* which np.random.seed does not touch and nothing here seeds: each draw
\* returns any position of idx.
Row ==
  /\ pc = "for_u"
  /\ u < Nusers
  /\ \E idx0 \in {NonZeroCols(Xtr, u)} :
        IF tst[u] > Len(idx0)
        THEN /\ Raise("IndexError")
             /\ UNCHANGED <<Xtr, Xtst, u, i, idx, idx_tst, sub_el, bound, ret>>
        ELSE \E picks \in Picks(Len(idx0), tst[u]) :
               \E d \in {Sample(idx0, picks)} :
               \E b \in {bound \cup {"idx", "idx_tst"}
                         \cup (IF tst[u] > 0 THEN {"sub_el"} ELSE {})} :
                  /\ idx' = d.idx
                  /\ idx_tst' = d.idx_tst
                  /\ sub_el' = IF tst[u] > 0 THEN d.sub_el ELSE sub_el
                  /\ i' = tst[u]
                  /\ Xtr' = ZeroCols(Xtr, u, d.idx_tst)
                  /\ Xtst' = ZeroCols(Xtst, u, d.idx)
                  /\ IF NonZeroCount(Xtr', u) + NonZeroCount(Xtst', u) # rated[u]
                     THEN /\ Raise("AssertionError")
                          /\ u' = u /\ bound' = b /\ ret' = ret
                     ELSE IF u + 1 < Nusers
                          THEN /\ u' = u + 1 /\ bound' = b
                               /\ UNCHANGED <<pc, err, ret>>
                          ELSE /\ u' = u + 1
                               /\ SplitEnd(b, Xtr', Xtst')
  /\ UNCHANGED <<df, sorted_df, selfVars, callVars, rated, tst, apiVars, clientVars, prev>>

Next ==
  \/ \E r \in Ratios, s \in seeds : SplitBegin(r, s)
  \/ Row

Spec == Init /\ [][Next]_vars

(***************************************************************************)
(* Repeated calls: the client calls stratified_split twice on one object,  *)
(* with seeds of its choice.                                               *)
(***************************************************************************)
InitRepeat == \E t \in TablesUpTo(RepeatRows) : Constructed(t, 2, Seeds)

SpecRepeat == InitRepeat /\ [][Next]_vars

(***************************************************************************)
(* The methods called one by one by a client                               *)
(***************************************************************************)
\* The matrices a client hands to map_back_sparse besides self.AM: those of
\* shape (3, 2) with a single rated cell.
ClientMatrices ==
  {[m |-> 3, n |-> 2, a |-> [c \in Cells(3, 2) |-> IF c = hot THEN 5 ELSE 0]] :
     hot \in Cells(3, 2)}

\* self.gen_index()
ApiGenIndex ==
  /\ pc = "idle"
  /\ GenIndexOnly
  /\ UNCHANGED <<df, sorted_df, callVars, loopVars, pc, err, ret, apiVars, clientVars,
                 prev>>

\* self.gen_affinity_matrix(): needs the attributes gen_index sets.
ApiGenAffinityMatrix ==
  /\ pc = "idle"
  /\ IF "df_" \notin attrs
     THEN Raise("AttributeError") /\ UNCHANGED selfVars
     ELSE /\ GenAffinityMatrixBody
          /\ IF SparsnessRaises(AM') THEN Raise("ValueError")
             ELSE UNCHANGED <<pc, err>>
  /\ UNCHANGED <<df, sorted_df, callVars, loopVars, ret, apiVars, clientVars, prev>>

\* self.map_back_sparse(X)
ApiMapBackSparse(X) ==
  /\ pc = "idle"
  /\ IF "maps" \notin attrs
     THEN Raise("AttributeError") /\ UNCHANGED apiVars
     ELSE /\ arg' = X
          /\ out_df' = MapBackSparse(X, map_back_users, map_back_items)
          /\ pc' = "mapped_back"
          /\ err' = err
  /\ UNCHANGED <<df, sorted_df, selfVars, callVars, loopVars, ret, clientVars, prev>>

\* A client that builds the index and the matrix and maps the matrix back.
NextApi ==
  \/ ApiGenIndex
  \/ ApiGenAffinityMatrix
  \/ "AM" \in attrs /\ ApiMapBackSparse(AM)

InitApi == \E t \in Tables : Constructed(t, 0, {})

SpecApi == InitApi /\ [][NextApi]_vars

\* A client that maps back matrices of its own.
NextClient ==
  \/ ApiGenIndex
  \/ ApiGenAffinityMatrix
  \/ \E X \in ClientMatrices : ApiMapBackSparse(X)

InitClient == \E t \in TablesUpTo(RepeatRows) : Constructed(t, 0, {})

SpecClient == InitClient /\ [][NextClient]_vars

(***************************************************************************)
(* Properties                                                              *)
(***************************************************************************)
\* The non-zero columns of row r of X, as a set.
NZ(X, r) == {j \in 0..(X.n - 1) : X.a[<<r, j>>] # 0}

TableSet(t) == {t[k] : k \in 1..Len(t)}

Pairs(t) == {<<t[k].user, t[k].item>> : k \in 1..Len(t)}

\* No two rows of t have the same (user, item) pair.
DuplicateFree(t) ==
  \A a, b \in 1..Len(t) :
    a # b => <<t[a].user, t[a].item>> # <<t[b].user, t[b].item>>

RECURSIVE SumRatings(_, _, _)
\* The sum of the ratings of the rows of t that have the pair (usr, itm).
SumRatings(t, usr, itm) ==
  IF t = << >> THEN 0
  ELSE (IF Head(t).user = usr /\ Head(t).item = itm THEN Head(t).rating ELSE 0)
       + SumRatings(Tail(t), usr, itm)

\* floor((1 - r) * 100) in double arithmetic for the ratios 0.25, 0.5, 0.9.
FloorCut == (25 :> 75) @@ (50 :> 50) @@ (90 :> 9)

Returned == pc = "returned"

\* C1: in the matrices stratified_split returns, the non-zero columns of
\* train[u] and test[u] are disjoint and together are exactly the non-zero
\* columns of row u of the affinity matrix, for every user row u.
C1_RowsPartitioned ==
  Returned =>
    \A r \in 0..(AM.m - 1) :
      /\ NZ(Xtr, r) \cap NZ(Xtst, r) = {}
      /\ NZ(Xtr, r) \cup NZ(Xtst, r) = NZ(AM, r)
      /\ Cardinality(NZ(Xtr, r)) + Cardinality(NZ(Xtst, r)) = rated[r]
      /\ rated[r] = Cardinality(NZ(AM, r))

C1_Witness ==
  /\ Returned
  /\ \E r \in 0..(AM.m - 1) : NZ(Xtr, r) # {} /\ NZ(Xtst, r) # {}
  /\ \E r \in 0..(AM.m - 1) : Cardinality(NZ(Xtst, r)) = 2

\* C2: two calls of stratified_split with the same table, ratio and seed
\* return the same train and test matrices.
C2_SameSeedSameSplit ==
  (Returned /\ prev.valid /\ prev.ratio = ratio /\ prev.seed = np_seed)
    => (prev.Xtr = Xtr /\ prev.Xtst = Xtst)

\* C3: every row u of the returned test matrix has exactly
\* (rated[u] * test_cut) // 100 non-zero cells, with test_cut =
\* floor((1 - ratio) * 100) the same for all rows, the train row has the other
\* rated[u] - test_count[u], and the columns drawn for a row are distinct.
C3_TestCount ==
  /\ Returned =>
       /\ test_cut = FloorCut[ratio]
       /\ \A r \in 0..(AM.m - 1) :
            LET n == Cardinality(NZ(AM, r))
                k == (n * FloorCut[ratio]) \div 100
            IN /\ Cardinality(NZ(Xtst, r)) = k
               /\ Cardinality(NZ(Xtr, r)) = n - k
  /\ (pc \in {"for_u", "returned"} /\ u > 0) =>
       /\ Len(idx_tst) = (Cardinality(NZ(AM, u - 1)) * FloorCut[ratio]) \div 100
       /\ \A a, b \in 1..Len(idx_tst) : a # b => idx_tst[a] # idx_tst[b]
       /\ Range(idx_tst) = NZ(Xtst, u - 1)

C3_Witness ==
  /\ Returned
  /\ \E r \in 0..(AM.m - 1) : Cardinality(NZ(Xtst, r)) = 2
  /\ Len(idx_tst) = 2

\* C4: on a non-empty table stratified_split returns normally, also when
\* test_count is 0 for some or for all rows, and a row whose test_count is 0
\* is whole in train and all zeros in test.
C4_ZeroCountReturns ==
  (df # << >> /\ pc \in {"raised", "returned"}) =>
    /\ Returned
    /\ \A r \in 0..(AM.m - 1) :
         (Cardinality(NZ(AM, r)) * FloorCut[ratio]) \div 100 = 0 =>
           \A j \in 0..(AM.n - 1) :
             Xtr.a[<<r, j>>] = AM.a[<<r, j>>] /\ Xtst.a[<<r, j>>] = 0

\* C5: mapping back the affinity matrix built from a duplicate-free table
\* gives exactly the rows of the table, whatever their order.
C5_RoundTrip ==
  (pc = "mapped_back" /\ arg = AM /\ DuplicateFree(df)) =>
    /\ TableSet(out_df) = TableSet(df)
    /\ Len(out_df) = Len(df)

C5_Witness ==
  /\ pc = "mapped_back" /\ arg = AM /\ DuplicateFree(df)
  /\ Len(df) = 3
  /\ df[1].user > df[2].user
  /\ df[2].item > df[3].item
  /\ Len(out_df) = 3

\* C6: the cell of a (user, item) pair is the sum of the ratings of all rows
\* of the table that have the pair, and every other cell is 0.
C6_DuplicatesSummed ==
  "AM" \in attrs =>
    /\ \A k \in 1..Len(df) :
         AM.a[<<map_users[df[k].user], map_items[df[k].item]>>]
           = SumRatings(df, df[k].user, df[k].item)
    /\ \A c \in Cells(AM.m, AM.n) :
         AM.a[c] = SumRatings(df, map_back_users[c[1]], map_back_items[c[2]])
    /\ AM.m = Nusers /\ AM.n = Nitems

C6_Witness ==
  /\ "AM" \in attrs
  /\ \E a, b \in 1..Len(df) :
       /\ a < b
       /\ df[a].user = df[b].user /\ df[a].item = df[b].item
       /\ df[a].rating # df[b].rating
       /\ AM.a[<<map_users[df[a].user], map_items[df[a].item]>>]
            = df[a].rating + df[b].rating
  /\ \E c \in Cells(AM.m, AM.n) : AM.a[c] = 0

\* C7: after gen_index the forward maps are defined on exactly the observed
\* identifiers, their images are exactly 0..N-1 without repeats, N is the
\* number of distinct identifiers, and backward(forward(id)) = id.
C7_IndexBijection ==
  "maps" \in attrs =>
    /\ DOMAIN map_users = Range(Column(df, "user"))
    /\ DOMAIN map_items = Range(Column(df, "item"))
    /\ Nusers = Cardinality(Range(Column(df, "user")))
    /\ Nitems = Cardinality(Range(Column(df, "item")))
    /\ {map_users[x] : x \in DOMAIN map_users} = 0..(Nusers - 1)
    /\ {map_items[x] : x \in DOMAIN map_items} = 0..(Nitems - 1)
    /\ DOMAIN map_back_users = 0..(Nusers - 1)
    /\ DOMAIN map_back_items = 0..(Nitems - 1)
    /\ \A x \in DOMAIN map_users : map_back_users[map_users[x]] = x
    /\ \A x \in DOMAIN map_items : map_back_items[map_items[x]] = x

C7_Witness ==
  /\ "maps" \in attrs
  /\ Len(df) = 3 /\ Nusers = 2 /\ Nitems = 2
  /\ df[1].user > df[2].user
  /\ df[1].item > df[2].item

\* C8: stratified_split on the empty table does not raise: it gives
\* Nusers = Nitems = 0, empty maps, (0, 0) matrices and empty tables.
C8_EmptyTableReturns ==
  (df = << >> /\ pc # "idle") =>
    /\ err = "none"
    /\ Nusers = 0 /\ Nitems = 0
    /\ map_users = << >> /\ map_items = << >>
    /\ map_back_users = << >> /\ map_back_items = << >>
    /\ Xtr = EmptyMatrix /\ Xtst = EmptyMatrix
    /\ ret = NoTables

\* A non-zero cell of X whose row or column index the backward maps lack.
UnmappedCell(X) ==
  \E c \in Cells(X.m, X.n) :
    /\ X.a[c] # 0
    /\ c[1] \notin DOMAIN map_back_users \/ c[2] \notin DOMAIN map_back_items

\* C9: map_back_sparse on a matrix with a non-zero cell whose row or column
\* index is no key of the backward maps ends in a LookupError, and returns
\* no table.
C9_UnmappedIndexRaises ==
  (pc = "mapped_back" /\ UnmappedCell(arg)) => err = "LookupError"

\* C10: for a duplicate-free table, every cell of the returned train and test
\* matrices is 0 or the affinity matrix's cell, train + test is the affinity
\* matrix, the returned tables share no (user, item) pair and their union is
\* the set of rows of the input table.
C10_SplitLossless ==
  (Returned /\ DuplicateFree(df)) =>
    /\ \A c \in Cells(AM.m, AM.n) :
         /\ Xtr.a[c] \in {0, AM.a[c]}
         /\ Xtst.a[c] \in {0, AM.a[c]}
         /\ Xtr.a[c] + Xtst.a[c] = AM.a[c]
    /\ Pairs(ret.train) \cap Pairs(ret.test) = {}
    /\ TableSet(ret.train) \cup TableSet(ret.test) = TableSet(df)
    /\ Len(ret.train) + Len(ret.test) = Len(df)

C10_Witness ==
  /\ Returned /\ DuplicateFree(df)
  /\ Nusers = 2
  /\ df[1].user > df[2].user
  /\ ret.train # << >> /\ ret.test # << >>

=============================================================================
